---- MODULE Spec2Model ----
(***************************************************************************)
(* Ingress allowlist filtering of the routed driver                        *)
(* (drivers/routed/netfilter.go): the rule program applyFiltering and      *)
(* removeFiltering compile for one interface, its command-by-command       *)
(* execution against the iptables filter table, and the table states that  *)
(* result when commands fail or when calls for two interfaces interleave.  *)
(***************************************************************************)
EXTENDS Integers, Sequences, FiniteSets, TLC

(***************************************************************************)
(* Bounds of the model.                                                    *)
(***************************************************************************)
\* Number of applyFiltering / removeFiltering calls in one behaviour.
MaxCalls == 3
\* Width of an address in bits: addresses are 0 .. 2^AddrBits - 1.
AddrBits == 2

(***************************************************************************)
(* Constants of the source.                                                *)
(***************************************************************************)
containersChainName == "CONTAINERS"
containerRejectChainName == "CONTAINER-REJECT"
vethChainPrefix == "CONTAINER-"

\* The interfaces that carry a filter.
Ifaces == {"eth0", "eth1"}

Other(i) == CHOOSE j \in Ifaces : j # i

(***************************************************************************)
(* Addresses, network blocks and ranges.                                   *)
(***************************************************************************)
RECURSIVE Pow2(_)
Pow2(n) == IF n = 0 THEN 1 ELSE 2 * Pow2(n - 1)

Addrs == 0 .. (Pow2(AddrBits) - 1)

\* The network address of ip under a prefix of `ones` bits (net.ParseCIDR
\* returns the masked address).
MaskIP(ip, ones) == (ip \div Pow2(AddrBits - ones)) * Pow2(AddrBits - ones)

\* net.IPNet.Contains
NetContains(ipNet, ip) == MaskIP(ip, ipNet.ones) = ipNet.ip

\* inclusive interval of an IPRange
RangeContains(ipRange, ip) == ipRange.from <= ip /\ ip <= ipRange.to

(***************************************************************************)
(* netFilterConfig values the filters are built with.  A nil config is     *)
(* NilConfig.  allowedNets holds what ParseIPOrNet returns (masked         *)
(* networks); allowedRanges holds what ParseIPRange returns (any two       *)
(* addresses, from above to included).                                     *)
(***************************************************************************)
NilConfig == [nil |-> TRUE, allowedNets |-> <<>>, allowedRanges |-> <<>>]

IPNet(ip, ones) == [ip |-> MaskIP(ip, ones), ones |-> ones]
IPRange(from, to) == [from |-> from, to |-> to]

HostNet == IPNet(0, AddrBits)
HalfNet == IPNet(Pow2(AddrBits) - 1, 1)

NetLists == {<<>>, <<HostNet>>, <<HostNet, HalfNet>>, <<HalfNet, HostNet>>}
RangeLists == {<<>>, <<IPRange(1, 1)>>, <<IPRange(1, 2), IPRange(0, 0)>>,
               <<IPRange(2, 1)>>}

netFilterConfig ==
    {[nil |-> FALSE, allowedNets |-> ns, allowedRanges |-> rs] :
        ns \in NetLists, rs \in RangeLists} \
    {[nil |-> FALSE, allowedNets |-> <<>>, allowedRanges |-> <<>>]}

\* The allowlist of the second interface, when it has one.
SecondConfig ==
    [nil |-> FALSE, allowedNets |-> <<HalfNet, HostNet>>,
     allowedRanges |-> <<IPRange(1, 1)>>]

\* Bug: the interface name is left out of the chain name.
VethChainNameShared(ifaceName) == vethChainPrefix

\* vethChainName := vethChainPrefix + n.ifaceName
VethChainName(ifaceName) == vethChainPrefix \o ifaceName

(***************************************************************************)
(* Rules and commands.  A command is the argument list handed to           *)
(* iptables.Raw: the operation, the chain, the position of an insert and   *)
(* the rule specification (match and target).                              *)
(***************************************************************************)
NoRule == [match |-> "", a |-> 0, b |-> 0, dev |-> "", target |-> ""]

\* "-s", ipNet.String(), "-j", "ACCEPT"
AcceptNet(ipNet) ==
    [match |-> "-s", a |-> ipNet.ip, b |-> ipNet.ones, dev |-> "",
     target |-> "ACCEPT"]

\* "-m", "iprange", "--src-range", ipRange.String(), "-j", "ACCEPT"
AcceptRange(ipRange) ==
    [match |-> "iprange", a |-> ipRange.from, b |-> ipRange.to, dev |-> "",
     target |-> "ACCEPT"]

\* "-j", "CONTAINER-REJECT"
JumpReject ==
    [match |-> "", a |-> 0, b |-> 0, dev |-> "", target |-> "CONTAINER-REJECT"]

\* "-o", n.ifaceName, "-j", vethChainName
JumpVeth(ifaceName) ==
    [match |-> "-o", a |-> 0, b |-> 0, dev |-> ifaceName,
     target |-> VethChainName(ifaceName)]

Cmd(op, chain, pos, rule) ==
    [op |-> op, chain |-> chain, pos |-> pos, rule |-> rule]

NoCmd == Cmd("", "", 0, NoRule)

\* iptablesRules.addRule
addRule(rules, args) == Append(rules, args)

(***************************************************************************)
(* The backend: the iptables filter table, as a function from the names    *)
(* of the chains that exist to their rule lists, and the effect of one     *)
(* command on it.                                                          *)
(***************************************************************************)
BuiltinTargets == {"ACCEPT", "DROP", "REJECT", "RETURN"}

\* A rule can only jump to a built-in target or to a chain that exists.
TargetOk(rule, t) == rule.target \in BuiltinTargets \/ rule.target \in DOMAIN t

\* Some rule of some chain of t jumps to chain.
Referenced(chain, t) ==
    \E c \in DOMAIN t : \E k \in 1 .. Len(t[c]) : t[c][k].target = chain

InsertAt(s, pos, e) == SubSeq(s, 1, pos - 1) \o <<e>> \o SubSeq(s, pos, Len(s))

RemoveAt(s, pos) == SubSeq(s, 1, pos - 1) \o SubSeq(s, pos + 1, Len(s))

\* Position of the first rule of s equal to rule, 0 when there is none.
FirstMatch(s, rule) ==
    IF \E k \in 1 .. Len(s) : s[k] = rule
    THEN CHOOSE k \in 1 .. Len(s) :
             s[k] = rule /\ \A m \in 1 .. (k - 1) : s[m] # rule
    ELSE 0

\* iptables.ExistChain(chainName, iptables.Filter)
ExistChain(chainName, t) == chainName \in DOMAIN t

\* iptables.Raw(args...): whether the command succeeds on table t and the
\* table it leaves.  A command that fails leaves the table as it was.
Raw(args, t) ==
    LET c == args.chain
        fail == [ok |-> FALSE, tables |-> t]
        done(t2) == [ok |-> TRUE, tables |-> t2]
    IN  CASE args.op = "-N" ->
               IF c \in DOMAIN t THEN fail
               ELSE done([x \in DOMAIN t \cup {c} |->
                             IF x = c THEN <<>> ELSE t[x]])
          [] args.op = "-A" ->
               IF c \in DOMAIN t /\ TargetOk(args.rule, t)
               THEN done([t EXCEPT ![c] = Append(@, args.rule)])
               ELSE fail
          [] args.op = "-I" ->
               IF /\ c \in DOMAIN t
                  /\ TargetOk(args.rule, t)
                  /\ args.pos \in 1 .. (Len(t[c]) + 1)
               THEN done([t EXCEPT ![c] = InsertAt(@, args.pos, args.rule)])
               ELSE fail
          [] args.op = "-D" ->
               IF c \in DOMAIN t /\ FirstMatch(t[c], args.rule) # 0
               THEN done([t EXCEPT
                             ![c] = RemoveAt(@, FirstMatch(@, args.rule))])
               ELSE fail
          [] args.op = "-F" ->
               IF c \in DOMAIN t
               THEN done([t EXCEPT ![c] = <<>>])
               ELSE fail
          [] args.op = "-X" ->
               IF c \in DOMAIN t /\ t[c] = <<>> /\ ~Referenced(c, t)
               THEN done([x \in DOMAIN t \ {c} |-> t[x]])
               ELSE fail
          [] OTHER -> fail

\* Whether a rule matches a packet with source address src leaving by dev.
Matches(rule, src, dev) ==
    CASE rule.match = "-s" -> NetContains([ip |-> rule.a, ones |-> rule.b], src)
      [] rule.match = "iprange" ->
             RangeContains([from |-> rule.a, to |-> rule.b], src)
      [] rule.match = "-o" -> rule.dev = dev
      [] OTHER -> TRUE

\* Where the traversal of rule list s ends for the packet: the target of
\* its first matching rule, "RETURN" when no rule matches.
Verdict(s, src, dev) ==
    IF \E k \in 1 .. Len(s) : Matches(s[k], src, dev)
    THEN s[CHOOSE k \in 1 .. Len(s) :
               /\ Matches(s[k], src, dev)
               /\ \A m \in 1 .. (k - 1) : ~Matches(s[m], src, dev)].target
    ELSE "RETURN"

(***************************************************************************)
(* The rule programs of applyFiltering and removeFiltering.                *)
(***************************************************************************)
\* Bug: only CONTAINERS is verified.
BaseChainsFirstOnly == <<containersChainName>>

\* for _, chainName := range []string{containersChainName, containerRejectChainName}
BaseChains == <<containersChainName, containerRejectChainName>>

\* for _, ipNet := range n.config.allowedNets { rules.addRule("-A", ...) }
RECURSIVE addNetRules(_, _, _)
addNetRules(rules, chain, nets) ==
    IF nets = <<>> THEN rules
    ELSE addNetRules(addRule(rules, Cmd("-A", chain, 0, AcceptNet(Head(nets)))),
                     chain, Tail(nets))

\* for _, ipRange := range n.config.allowedRanges { rules.addRule("-A", ...) }
RECURSIVE addRangeRules(_, _, _)
addRangeRules(rules, chain, ranges) ==
    IF ranges = <<>> THEN rules
    ELSE addRangeRules(
             addRule(rules, Cmd("-A", chain, 0, AcceptRange(Head(ranges)))),
             chain, Tail(ranges))

\* Bug: the jump into the dedicated chain is inserted right after the chain
\* is created, before its rules are appended.
applyFilteringRulesJumpEarly(n) ==
    LET vethChainName == VethChainName(n.ifaceName)
        r1 == addRule(<<>>, Cmd("-N", vethChainName, 0, NoRule))
        r2 == addRule(r1, Cmd("-I", containersChainName, 1,
                              JumpVeth(n.ifaceName)))
        r3 == addNetRules(r2, vethChainName, n.config.allowedNets)
        r4 == addRangeRules(r3, vethChainName, n.config.allowedRanges)
    IN  addRule(r4, Cmd("-A", vethChainName, 0, JumpReject))

\* Bug: the jump to CONTAINER-REJECT is appended before the range rules.
applyFilteringRulesRejectEarly(n) ==
    LET vethChainName == VethChainName(n.ifaceName)
        r1 == addRule(<<>>, Cmd("-N", vethChainName, 0, NoRule))
        r2 == addNetRules(r1, vethChainName, n.config.allowedNets)
        r3 == addRule(r2, Cmd("-A", vethChainName, 0, JumpReject))
        r4 == addRangeRules(r3, vethChainName, n.config.allowedRanges)
    IN  addRule(r4, Cmd("-I", containersChainName, 1, JumpVeth(n.ifaceName)))

\* Bug: the jump into the dedicated chain is appended to CONTAINERS.
applyFilteringRulesJumpAppended(n) ==
    LET vethChainName == VethChainName(n.ifaceName)
        r1 == addRule(<<>>, Cmd("-N", vethChainName, 0, NoRule))
        r2 == addNetRules(r1, vethChainName, n.config.allowedNets)
        r3 == addRangeRules(r2, vethChainName, n.config.allowedRanges)
        r4 == addRule(r3, Cmd("-A", vethChainName, 0, JumpReject))
    IN  addRule(r4, Cmd("-A", containersChainName, 0, JumpVeth(n.ifaceName)))

\* Bug: the range rules are added before the network rules.
applyFilteringRulesRangesFirst(n) ==
    LET vethChainName == VethChainName(n.ifaceName)
        r1 == addRule(<<>>, Cmd("-N", vethChainName, 0, NoRule))
        r2 == addRangeRules(r1, vethChainName, n.config.allowedRanges)
        r3 == addNetRules(r2, vethChainName, n.config.allowedNets)
        r4 == addRule(r3, Cmd("-A", vethChainName, 0, JumpReject))
    IN  addRule(r4, Cmd("-I", containersChainName, 1, JumpVeth(n.ifaceName)))

\* The rules applyFiltering adds before rules.apply().
applyFilteringRules(n) ==
    LET vethChainName == VethChainName(n.ifaceName)
        r1 == addRule(<<>>, Cmd("-N", vethChainName, 0, NoRule))
        r2 == addNetRules(r1, vethChainName, n.config.allowedNets)
        r3 == addRangeRules(r2, vethChainName, n.config.allowedRanges)
        r4 == addRule(r3, Cmd("-A", vethChainName, 0, JumpReject))
    IN  addRule(r4, Cmd("-I", containersChainName, 1, JumpVeth(n.ifaceName)))

\* Bug: the dedicated chain is flushed but never deleted.
removeFilteringRulesNoDelete(n) ==
    LET vethChainName == VethChainName(n.ifaceName)
        r1 == addRule(<<>>, Cmd("-D", containersChainName, 0,
                                JumpVeth(n.ifaceName)))
    IN  addRule(r1, Cmd("-F", vethChainName, 0, NoRule))

\* Bug: the dedicated chain is flushed before its jump rule is deleted.
removeFilteringRulesFlushFirst(n) ==
    LET vethChainName == VethChainName(n.ifaceName)
        r1 == addRule(<<>>, Cmd("-F", vethChainName, 0, NoRule))
        r2 == addRule(r1, Cmd("-D", containersChainName, 0,
                              JumpVeth(n.ifaceName)))
    IN  addRule(r2, Cmd("-X", vethChainName, 0, NoRule))

\* Bug: the dedicated chain is flushed before its jump rule is deleted.
removeFilteringRulesFlushThenJump(n) ==
    LET vethChainName == VethChainName(n.ifaceName)
        r1 == addRule(<<>>, Cmd("-F", vethChainName, 0, NoRule))
        r2 == addRule(r1, Cmd("-D", containersChainName, 0,
                              JumpVeth(n.ifaceName)))
    IN  addRule(r2, Cmd("-X", vethChainName, 0, NoRule))

\* Bug: the dedicated chain is flushed and deleted before its jump rule.
removeFilteringRulesJumpLast(n) ==
    LET vethChainName == VethChainName(n.ifaceName)
        r1 == addRule(<<>>, Cmd("-F", vethChainName, 0, NoRule))
        r2 == addRule(r1, Cmd("-X", vethChainName, 0, NoRule))
    IN  addRule(r2, Cmd("-D", containersChainName, 0, JumpVeth(n.ifaceName)))

\* The rules removeFiltering adds before rules.apply().
removeFilteringRules(n) ==
    LET vethChainName == VethChainName(n.ifaceName)
        r1 == addRule(<<>>, Cmd("-D", containersChainName, 0,
                                JumpVeth(n.ifaceName)))
        r2 == addRule(r1, Cmd("-F", vethChainName, 0, NoRule))
    IN  addRule(r2, Cmd("-X", vethChainName, 0, NoRule))

(***************************************************************************)
(* Text.  A Go string is the sequence of its characters; the functions of  *)
(* package strings that the parser uses are modelled by what they do.      *)
(***************************************************************************)
\* Position of the first sep in s, 0 when there is none.
IndexByte(s, sep) ==
    IF \E k \in 1 .. Len(s) : s[k] = sep
    THEN CHOOSE k \in 1 .. Len(s) :
             s[k] = sep /\ \A m \in 1 .. (k - 1) : s[m] # sep
    ELSE 0

\* strings.Contains(s, sep), sep one character
Contains(s, sep) == IndexByte(s, sep) # 0

\* strings.Split(s, sep), sep one character: the pieces between the
\* separators, one more than there are separators.
RECURSIVE Split(_, _)
Split(s, sep) ==
    IF IndexByte(s, sep) = 0 THEN <<s>>
    ELSE <<SubSeq(s, 1, IndexByte(s, sep) - 1)>>
         \o Split(SubSeq(s, IndexByte(s, sep) + 1, Len(s)), sep)

\* strings.TrimSpace(s)
RECURSIVE TrimSpace(_)
TrimSpace(s) ==
    IF s = <<>> THEN s
    ELSE IF Head(s) = " " THEN TrimSpace(Tail(s))
    ELSE IF s[Len(s)] = " " THEN TrimSpace(SubSeq(s, 1, Len(s) - 1))
    ELSE s

(***************************************************************************)
(* Package net.  An address is its family (4 or 6) and its bytes.  The     *)
(* texts ParseIP reads here are the dotted quads of IPv4 and, for IPv6,    *)
(* "::" alone or followed by one digit.                                    *)
(***************************************************************************)
IPv4len == 4
IPv6len == 16

DigitChars == {"0", "1", "2", "3", "4", "5", "6", "7", "8", "9"}

DigitValue(c) ==
    CASE c = "0" -> 0 [] c = "1" -> 1 [] c = "2" -> 2 [] c = "3" -> 3
      [] c = "4" -> 4 [] c = "5" -> 5 [] c = "6" -> 6 [] c = "7" -> 7
      [] c = "8" -> 8 [] c = "9" -> 9

\* A decimal number of one to three digits, -1 for any other text.
RECURSIVE DecimalValue(_)
DecimalValue(s) ==
    IF Len(s) = 0 THEN 0
    ELSE 10 * DecimalValue(SubSeq(s, 1, Len(s) - 1)) + DigitValue(s[Len(s)])

Dtoi(s) ==
    IF Len(s) \in 1 .. 3 /\ \A k \in 1 .. Len(s) : s[k] \in DigitChars
    THEN DecimalValue(s)
    ELSE -1

NoIP == [fam |-> 0, bytes |-> <<>>]

\* net.ParseIP(s): NoIP stands for nil.
ParseIP(s) ==
    LET quad == Split(s, ".")
    IN  IF /\ Len(quad) = IPv4len
           /\ \A k \in 1 .. IPv4len : Dtoi(quad[k]) \in 0 .. 255
        THEN [fam |-> 4, bytes |-> [k \in 1 .. IPv4len |-> Dtoi(quad[k])]]
        ELSE IF /\ Len(s) \in 2 .. 3
                /\ s[1] = ":" /\ s[2] = ":"
                /\ Len(s) = 3 => s[3] \in DigitChars
        THEN [fam |-> 6,
              bytes |-> [k \in 1 .. IPv6len |->
                            IF k = IPv6len /\ Len(s) = 3
                            THEN DigitValue(s[3]) ELSE 0]]
        ELSE NoIP

\* The number of bits of an address of the family.
FamilyBits(fam) == 8 * (IF fam = 4 THEN IPv4len ELSE IPv6len)

\* ip.Mask(net.CIDRMask(ones, bits)): the first `ones` bits of ip kept.
MaskBytes(ip, ones) ==
    [fam |-> ip.fam,
     bytes |-> [k \in 1 .. Len(ip.bytes) |->
                   LET keep == IF ones >= 8 * k THEN 8
                               ELSE IF ones <= 8 * (k - 1) THEN 0
                               ELSE ones - 8 * (k - 1)
                   IN  (ip.bytes[k] \div Pow2(8 - keep)) * Pow2(8 - keep)]]

NoNet == [ip |-> NoIP, ones |-> 0]

\* net.ParseCIDR(s): the network (masked address and prefix length), NoNet
\* standing for the error.
ParseCIDR(s) ==
    LET i == IndexByte(s, "/")
        ip == ParseIP(SubSeq(s, 1, i - 1))
        n == Dtoi(SubSeq(s, i + 1, Len(s)))
    IN  IF i = 0 \/ ip = NoIP \/ n < 0 \/ n > FamilyBits(ip.fam) THEN NoNet
        ELSE [ip |-> MaskBytes(ip, n), ones |-> n]

\* The addresses of a network: net.IPNet.Contains
IPNetContains(ipNet, ip) ==
    ip.fam = ipNet.ip.fam /\ MaskBytes(ip, ipNet.ones) = ipNet.ip

(***************************************************************************)
(* The parser.                                                             *)
(***************************************************************************)
NoRange == [from |-> NoIP, to |-> NoIP]

\* func ParseIPRange(ipRange string) *IPRange: NoRange stands for nil.
ParseIPRange(ipRange) ==
    LET ipStrs == Split(ipRange, "-")
    IN  IF Len(ipStrs) = 2
        THEN LET ips == [idx \in 1 .. 2 |-> ParseIP(TrimSpace(ipStrs[idx]))]
             IN  IF ips[1] # NoIP /\ ips[2] # NoIP
                 THEN [from |-> ips[1], to |-> ips[2]]
                 ELSE NoRange
        ELSE NoRange

\* func ParseIPOrNet(ipStr string) *net.IPNet: NoNet stands for nil.
ParseIPOrNet(ipStr) ==
    ParseCIDR(IF ~Contains(ipStr, "/") THEN ipStr \o <<"/", "3", "2">>
              ELSE ipStr)

\* fmt.Errorf("NetFilter: Could not parse IP, CIDR or IPRange %s", ...)
NoParseError == [kind |-> "nil", filterElement |-> <<>>]
ParseError(filterElement) ==
    [kind |-> "could not parse", filterElement |-> filterElement]

\* Bug: an element that does not parse is skipped.
parseElementSkipBad(config, element) ==
    LET filterElement == TrimSpace(element)
        ipNet == ParseIPOrNet(filterElement)
        ipRange == ParseIPRange(filterElement)
    IN  IF ipNet # NoNet
        THEN [config |-> [config EXCEPT !.allowedNets = Append(@, ipNet)],
              err |-> NoParseError]
        ELSE IF ipRange # NoRange
        THEN [config |-> [config EXCEPT !.allowedRanges = Append(@, ipRange)],
              err |-> NoParseError]
        ELSE [config |-> config, err |-> NoParseError]

\* Bug: a new network is put ahead of the ones already parsed.
parseElementPrepend(config, element) ==
    LET filterElement == TrimSpace(element)
        ipNet == ParseIPOrNet(filterElement)
        ipRange == ParseIPRange(filterElement)
    IN  IF ipNet # NoNet
        THEN [config |-> [config EXCEPT !.allowedNets = <<ipNet>> \o @],
              err |-> NoParseError]
        ELSE IF ipRange # NoRange
        THEN [config |-> [config EXCEPT !.allowedRanges = Append(@, ipRange)],
              err |-> NoParseError]
        ELSE [config |-> NilConfig, err |-> ParseError(filterElement)]

\* Bug: an element that is empty once trimmed is skipped.
parseElementSkipEmpty(config, element) ==
    LET filterElement == TrimSpace(element)
        ipNet == ParseIPOrNet(filterElement)
        ipRange == ParseIPRange(filterElement)
    IN  IF filterElement = <<>>
        THEN [config |-> config, err |-> NoParseError]
        ELSE IF ipNet # NoNet
        THEN [config |-> [config EXCEPT !.allowedNets = Append(@, ipNet)],
              err |-> NoParseError]
        ELSE IF ipRange # NoRange
        THEN [config |-> [config EXCEPT !.allowedRanges = Append(@, ipRange)],
              err |-> NoParseError]
        ELSE [config |-> NilConfig, err |-> ParseError(filterElement)]

\* The body of the loop of NetFilterConfigParse for one element: the config
\* with the element appended, or the nil config and the error returned.
parseElement(config, element) ==
    LET filterElement == TrimSpace(element)
        ipNet == ParseIPOrNet(filterElement)
        ipRange == ParseIPRange(filterElement)
    IN  IF ipNet # NoNet
        THEN [config |-> [config EXCEPT !.allowedNets = Append(@, ipNet)],
              err |-> NoParseError]
        ELSE IF ipRange # NoRange
        THEN [config |-> [config EXCEPT !.allowedRanges = Append(@, ipRange)],
              err |-> NoParseError]
        ELSE [config |-> NilConfig, err |-> ParseError(filterElement)]

\* Bug: the test of the empty string is missing.
isSetAlways(ingressAllowedString) == TRUE

\* if ingressAllowedString != ""
isSet(ingressAllowedString) == ingressAllowedString # <<>>

\* config := new(netFilterConfig)
newConfig == [nil |-> FALSE, allowedNets |-> <<>>, allowedRanges |-> <<>>]

(***************************************************************************)
(* State.                                                                  *)
(*   tables     the filter table of the backend                            *)
(*   filters    the netFilter object of each interface (newNetFilter)      *)
(*   pc         where the current call of each filter stands               *)
(*   frame      the current (or last returned) call of each filter: its    *)
(*              rules, the index of the next rule, the value returned,     *)
(*              the backend calls it has made with their outcomes, and     *)
(*              the table at the time of the call                          *)
(*   ncalls     calls started so far                                       *)
(*   alone      per filter, the table and the outcomes of the backend      *)
(*              calls had the same calls run with no other filter active   *)
(*   roundTrip  per filter, while it alone is called: "applied" with the   *)
(*              table before the call once an applyFiltering has returned  *)
(*              nil, "removed" once a removeFiltering after it has         *)
(*              returned nil; "reapplying" once applyFiltering is called   *)
(*              again with no removeFiltering in between, "recovered"      *)
(*              once a removeFiltering after that has returned nil         *)
(*   parse      the call of NetFilterConfigParse: the string it is given,  *)
(*              the elements the string was written from, where the call   *)
(*              stands, the elements left to parse, the config built so    *)
(*              far and the values returned                                *)
(***************************************************************************)
VARIABLES tables, filters, pc, frame, ncalls, alone, roundTrip, parse

vars == <<tables, filters, pc, frame, ncalls, alone, roundTrip, parse>>

NoTables == [c \in {} |-> <<>>]

\* The values a call returns.
RetNone == [kind |-> "none", chain |-> "", args |-> NoCmd]
RetNil == [kind |-> "nil", chain |-> "", args |-> NoCmd]
\* fmt.Errorf("Expected iptables chain not found: %s", chainName)
ErrChainNotFound(chainName) ==
    [kind |-> "chain not found", chain |-> chainName, args |-> NoCmd]
\* fmt.Errorf("NetFilter. IP tables apply rule failed %s %s %v", args, ...)
ErrRuleFailed(args) ==
    [kind |-> "rule failed", chain |-> "", args |-> args]

NoFrame ==
    [op |-> "", chk |-> 0, rules |-> <<>>, idx |-> 0, ret |-> RetNone,
     queried |-> <<>>, issued |-> <<>>, pre |-> NoTables]

NoParse ==
    [at |-> "", input |-> <<>>, elements |-> <<>>, rest |-> <<>>,
     config |-> NilConfig, err |-> NoParseError]

NoRoundTrip == [stage |-> "none", before |-> NoTables]

\* Rules found in CONTAINERS that this driver did not put there.
ForeignRule(k) ==
    [match |-> "-s", a |-> k, b |-> AddrBits, dev |-> "", target |-> "DROP"]

InitialTables ==
    {[c \in present |->
         IF c = containersChainName THEN base
         ELSE <<[match |-> "", a |-> 0, b |-> 0, dev |-> "",
                 target |-> "REJECT"]>>] :
        present \in SUBSET {containersChainName, containerRejectChainName},
        base \in {<<>>, <<ForeignRule(1), ForeignRule(0)>>}}

\* newNetFilter(ifaceName, epOptions)
newNetFilter(ifaceName, ingressFiltering) ==
    [ifaceName |-> ifaceName, config |-> ingressFiltering]

Init ==
    /\ tables \in InitialTables
    /\ \E c0 \in netFilterConfig \cup {NilConfig} :
       \E c1 \in {SecondConfig, NilConfig} :
          filters = [i \in Ifaces |->
                        newNetFilter(i, IF i = "eth0" THEN c0 ELSE c1)]
    /\ pc = [i \in Ifaces |-> "ready"]
    /\ frame = [i \in Ifaces |-> NoFrame]
    /\ ncalls = 0
    /\ alone = [i \in Ifaces |->
                   [tables |-> tables, queried |-> <<>>, issued |-> <<>>]]
    /\ roundTrip = [i \in Ifaces |-> NoRoundTrip]
    /\ parse = NoParse

Idle(i) == pc[i] \in {"ready", "done"}

\* Bug: the nil test is missing.
configIsNilNever(n) == FALSE

\* if n.config == nil { return nil }
configIsNil(n) == n.config.nil

\* Bug: the error of a rule is dropped and the loop goes on.
applyOutcomeKeepGoing(rule, ok, last) ==
    [ret |-> IF last THEN (IF ok THEN RetNil ELSE ErrRuleFailed(rule))
             ELSE RetNone,
     pc |-> IF last THEN "done" ELSE "apply",
     idx |-> 1]

\* Bug: the error of "-N" is dropped, as if the chain might be there already.
applyOutcomeIgnoreCreate(rule, ok, last) ==
    LET ok2 == ok \/ rule.op = "-N"
    IN  [ret |-> IF ~ok2 THEN ErrRuleFailed(rule)
                 ELSE IF last THEN RetNil ELSE RetNone,
         pc |-> IF ok2 /\ ~last THEN "apply" ELSE "done",
         idx |-> IF ok2 THEN 1 ELSE 0]

\* What the loop of iptablesRules.apply does with the outcome of one rule:
\* return the error, go on with the next rule, or return nil after the last.
applyOutcome(rule, ok, last) ==
    [ret |-> IF ~ok THEN ErrRuleFailed(rule)
             ELSE IF last THEN RetNil ELSE RetNone,
     pc |-> IF ok /\ ~last THEN "apply" ELSE "done",
     idx |-> IF ok THEN 1 ELSE 0]

\* No call is in progress: the caller serializes its calls.
Quiet == \A i \in Ifaces : Idle(i)

\* A call of filter i starts: the frames of the calls that have returned
\* are gone.
StartCall(i, f, p) ==
    /\ ncalls < MaxCalls
    /\ Idle(i)
    /\ ncalls' = ncalls + 1
    /\ pc' = [j \in Ifaces |->
                 IF j = i THEN p ELSE IF pc[j] = "done" THEN "ready" ELSE pc[j]]
    /\ frame' = [j \in Ifaces |->
                    IF j = i THEN f
                    ELSE IF pc[j] = "done" THEN NoFrame ELSE frame[j]]
    /\ alone' = [j \in Ifaces |->
                    IF j = i \/ pc[j] = "done"
                    THEN [alone[j] EXCEPT !.queried = <<>>, !.issued = <<>>]
                    ELSE alone[j]]

\* func (n *netFilter) applyFiltering() error, up to the first backend call
applyFilteringCall(i) ==
    LET n == filters[i]
        f == [NoFrame EXCEPT !.op = "apply", !.pre = tables]
    IN  /\ IF configIsNil(n)
           THEN StartCall(i, [f EXCEPT !.ret = RetNil], "done")
           ELSE StartCall(i, [f EXCEPT !.chk = 1], "check")
        /\ roundTrip' = [j \in Ifaces |->
                            IF /\ j = i
                               /\ roundTrip[j].stage = "applied"
                               /\ frame[j].op = "apply"
                            THEN [roundTrip[j] EXCEPT !.stage = "reapplying"]
                            ELSE NoRoundTrip]
        /\ UNCHANGED <<tables, filters, parse>>

\* One turn of the loop over containersChainName, containerRejectChainName:
\* the chainExists query, the return when the chain is missing and, after
\* the last chain, the building of the rules.  The query may fail in the
\* backend, and then reports the chain as missing.
chainExistsStep(i) ==
    /\ pc[i] = "check"
    /\ \E failure \in BOOLEAN :
        LET n == filters[i]
            f == frame[i]
            chainName == BaseChains[f.chk]
            found == ExistChain(chainName, tables) /\ ~failure
            foundAlone == ExistChain(chainName, alone[i].tables) /\ ~failure
            q == Append(f.queried, [chain |-> chainName, ok |-> found])
        IN  /\ IF ~found
               THEN /\ frame' = [frame EXCEPT ![i] =
                           [f EXCEPT !.queried = q,
                                     !.ret = ErrChainNotFound(chainName)]]
                    /\ pc' = [pc EXCEPT ![i] = "done"]
               ELSE IF f.chk < Len(BaseChains)
               THEN /\ frame' = [frame EXCEPT ![i] =
                           [f EXCEPT !.queried = q, !.chk = f.chk + 1]]
                    /\ pc' = pc
               ELSE /\ frame' = [frame EXCEPT ![i] =
                           [f EXCEPT !.queried = q,
                                     !.rules = applyFilteringRules(n),
                                     !.idx = 1]]
                    /\ pc' = [pc EXCEPT ![i] = "apply"]
            /\ alone' = [alone EXCEPT ![i].queried = Append(@, foundAlone)]
    /\ UNCHANGED <<tables, filters, ncalls, roundTrip, parse>>

\* func (n *netFilter) removeFiltering() error, up to rules.apply()
removeFilteringCall(i) ==
    LET n == filters[i]
        f == [NoFrame EXCEPT !.op = "remove", !.pre = tables]
    IN  /\ IF configIsNil(n)
           THEN StartCall(i, [f EXCEPT !.ret = RetNil], "done")
           ELSE StartCall(i, [f EXCEPT !.rules = removeFilteringRules(n),
                                       !.idx = 1], "apply")
        /\ roundTrip' = [j \in Ifaces |->
                            IF j = i THEN roundTrip[j] ELSE NoRoundTrip]
        /\ UNCHANGED <<tables, filters, parse>>

\* One turn of the loop of iptablesRules.apply: applyIPTablesRule on the
\* next rule, the return of its error, and the return of nil after the
\* last rule.  Any command may fail in the backend.
applyStep(i) ==
    /\ pc[i] = "apply"
    /\ \E failure \in BOOLEAN :
        LET f == frame[i]
            rule == f.rules[f.idx]
            out == Raw(rule, tables)
            ok == out.ok /\ ~failure
            outAlone == Raw(rule, alone[i].tables)
            okAlone == outAlone.ok /\ ~failure
            sent == Append(f.issued, [args |-> rule, ok |-> ok])
            last == f.idx = Len(f.rules)
            res == applyOutcome(rule, ok, last)
        IN  /\ tables' = IF ok THEN out.tables ELSE tables
            /\ frame' = [frame EXCEPT ![i] =
                   [f EXCEPT !.issued = sent, !.ret = res.ret,
                             !.idx = f.idx + res.idx]]
            /\ pc' = [pc EXCEPT ![i] = res.pc]
            /\ alone' = [alone EXCEPT ![i] =
                   [tables |-> IF okAlone THEN outAlone.tables ELSE @.tables,
                    queried |-> @.queried,
                    issued |-> Append(@.issued, okAlone)]]
            /\ roundTrip' =
                   IF res.ret = RetNil /\ f.op = "apply"
                   THEN [roundTrip EXCEPT ![i] =
                            [stage |-> "applied", before |-> f.pre]]
                   ELSE IF res.ret = RetNil /\ roundTrip[i].stage = "applied"
                   THEN [roundTrip EXCEPT ![i].stage = "removed"]
                   ELSE IF res.ret = RetNil /\ roundTrip[i].stage = "reapplying"
                   THEN [roundTrip EXCEPT ![i].stage = "recovered"]
                   ELSE roundTrip
    /\ UNCHANGED <<filters, ncalls, parse>>

\* The calls of one caller, one at a time.
Next ==
    \E i \in Ifaces :
        \/ Quiet /\ applyFilteringCall(i)
        \/ Quiet /\ removeFilteringCall(i)
        \/ chainExistsStep(i)
        \/ applyStep(i)

Spec == Init /\ [][Next]_vars

\* Calls for different interfaces interleaved between backend commands.
NextPar ==
    \E i \in Ifaces :
        \/ applyFilteringCall(i)
        \/ removeFilteringCall(i)
        \/ chainExistsStep(i)
        \/ applyStep(i)

\* Both interfaces carry an allowlist.
ParConfigs ==
    {c \in netFilterConfig :
        \/ c.allowedNets = <<HostNet>> /\ c.allowedRanges = <<>>
        \/ c.allowedNets = <<>> /\ c.allowedRanges = <<IPRange(1, 1)>>
        \/ Len(c.allowedNets) = 2 /\ Len(c.allowedRanges) = 2
              /\ Head(c.allowedNets) = HostNet}

InitPar ==
    /\ Init
    /\ filters["eth0"].config \in ParConfigs
    /\ filters["eth1"].config = SecondConfig

SpecPar == InitPar /\ [][NextPar]_vars

(***************************************************************************)
(* NetFilterConfigParse, one element of the string at a time, and the      *)
(* filter built from what it returns.                                      *)
(***************************************************************************)
\* Elements in one string.
MaxElements == 2

\* The elements the strings are written from: addresses, blocks and ranges
\* of both families, well and badly formed.
ElementPool ==
    {<<"1", ".", "2", ".", "3", ".", "4">>,
     <<"1", ".", "2", ".", "3", ".", "4", "/", "8">>,
     <<":", ":", "1">>,
     <<":", ":", "1", "/", "1", "2", "8">>,
     <<"1", ".", "2", ".", "3", ".", "4", "-", "1", ".", "2", ".", "3", ".", "9">>,
     <<"5", ".", "6", ".", "7", ".", "8", " ", "-", " ", "5", ".", "6", ".", "7", ".", "1">>,
     <<"x">>,
     <<>>,
     <<"1", ".", "2", ".", "3", ".", "4", "-">>,
     <<"1", ".", "2", ".", "3", ".", "4", "/", "3", "3">>}

\* An element as written: the text, between `pad` spaces on each side.
Written(e) ==
    [k \in 1 .. e.pad |-> " "] \o e.text \o [k \in 1 .. e.pad |-> " "]

\* The elements joined by commas.
RECURSIVE Join(_)
Join(es) ==
    IF es = <<>> THEN <<>>
    ELSE IF Len(es) = 1 THEN Written(es[1])
    ELSE Written(es[1]) \o <<",">> \o Join(Tail(es))

ElementLists ==
    UNION {[1 .. n -> [text : ElementPool, pad : 0 .. 1]] :
              n \in 1 .. MaxElements}

InitParse ==
    /\ tables = [c \in {containersChainName, containerRejectChainName} |-> <<>>]
    /\ filters = [i \in Ifaces |-> newNetFilter(i, NilConfig)]
    /\ pc = [i \in Ifaces |-> "ready"]
    /\ frame = [i \in Ifaces |-> NoFrame]
    /\ ncalls = 0
    /\ alone = [i \in Ifaces |->
                   [tables |-> tables, queried |-> <<>>, issued |-> <<>>]]
    /\ roundTrip = [i \in Ifaces |-> NoRoundTrip]
    /\ \E es \in ElementLists :
           parse = [NoParse EXCEPT !.at = "called", !.input = Join(es),
                                   !.elements = es]

\* func NetFilterConfigParse(ingressAllowedString string), up to the loop
NetFilterConfigParseCall ==
    /\ parse.at = "called"
    /\ parse' = IF isSet(parse.input)
                THEN [parse EXCEPT !.at = "loop",
                                   !.rest = Split(parse.input, ","),
                                   !.config = newConfig]
                ELSE [parse EXCEPT !.at = "returned"]
    /\ UNCHANGED <<tables, filters, pc, frame, ncalls, alone, roundTrip>>

\* One turn of the loop over strings.Split(ingressAllowedString, ","), the
\* return of the error and, after the last element, the return of config.
NetFilterConfigParseStep ==
    /\ parse.at = "loop"
    /\ LET out == parseElement(parse.config, Head(parse.rest))
       IN  parse' =
               IF out.err # NoParseError
               THEN [parse EXCEPT !.at = "returned", !.rest = <<>>,
                                  !.config = NilConfig, !.err = out.err]
               ELSE [parse EXCEPT
                        !.at = IF Len(parse.rest) = 1 THEN "returned"
                               ELSE "loop",
                        !.rest = Tail(parse.rest),
                        !.config = out.config]
    /\ UNCHANGED <<tables, filters, pc, frame, ncalls, alone, roundTrip>>

\* The caller hands the parsed config to newNetFilter.
newNetFilterStep ==
    /\ parse.at = "returned"
    /\ parse.err = NoParseError
    /\ parse' = [parse EXCEPT !.at = "built"]
    /\ filters' = [filters EXCEPT !["eth0"] = newNetFilter("eth0", parse.config)]
    /\ UNCHANGED <<tables, pc, frame, ncalls, alone, roundTrip>>

NextParse ==
    \/ NetFilterConfigParseCall
    \/ NetFilterConfigParseStep
    \/ newNetFilterStep

SpecParse == InitParse /\ [][NextParse]_vars

\* The caller chooses the interface identifier: newNetFilter takes any
\* string.  Here the second filter is built for an interface named "REJECT".
InitReject ==
    /\ tables \in InitialTables
    /\ \E c0 \in {SecondConfig, NilConfig} :
          filters = [i \in Ifaces |->
                        IF i = "eth0" THEN newNetFilter(i, c0)
                        ELSE newNetFilter("REJECT", SecondConfig)]
    /\ pc = [i \in Ifaces |-> "ready"]
    /\ frame = [i \in Ifaces |-> NoFrame]
    /\ ncalls = 0
    /\ alone = [i \in Ifaces |->
                   [tables |-> tables, queried |-> <<>>, issued |-> <<>>]]
    /\ roundTrip = [i \in Ifaces |-> NoRoundTrip]
    /\ parse = NoParse

SpecReject == InitReject /\ [][Next]_vars

(***************************************************************************)
(* Properties.                                                             *)
(***************************************************************************)
HasAllowlist(i) == ~filters[i].config.nil

\* The call of filter i has returned and nothing has run since.
Returned(i, op) == pc[i] = "done" /\ frame[i].op = op

\* The commands a call has issued, and those the backend has executed.
IssuedArgs(f) == [k \in 1 .. Len(f.issued) |-> f.issued[k].args]

AllOk(f) == \A k \in 1 .. Len(f.issued) : f.issued[k].ok

\* The table after the backend has executed cmds, in order, on table t.
RECURSIVE RunAll(_, _)
RunAll(cmds, t) ==
    IF cmds = <<>> THEN t ELSE RunAll(Tail(cmds), Raw(Head(cmds), t).tables)

IsPrefix(s, t) == Len(s) <= Len(t) /\ s = SubSeq(t, 1, Len(s))

\* C1: an applyFiltering of a filter with an allowlist, called while
\* CONTAINERS or CONTAINER-REJECT does not exist, never reaches rules.apply:
\* it issues no command, leaves the table as it was and returns the
\* "chain not found" error.
C1_MissingBaseChainNoCommand ==
    \A i \in Ifaces :
        (/\ frame[i].op = "apply"
         /\ HasAllowlist(i)
         /\ \E k \in 1 .. 2 :
                ~ExistChain(<<"CONTAINERS", "CONTAINER-REJECT">>[k],
                            frame[i].pre))
        => /\ pc[i] \in {"check", "done"}
           /\ frame[i].issued = <<>>
           /\ tables = frame[i].pre
           /\ pc[i] = "done" => frame[i].ret.kind = "chain not found"

\* C1 witness: CONTAINERS exists, CONTAINER-REJECT does not, and the apply
\* has returned the error after both queries.
C1_Witness ==
    \E i \in Ifaces :
        /\ Returned(i, "apply")
        /\ HasAllowlist(i)
        /\ ExistChain("CONTAINERS", frame[i].pre)
        /\ ~ExistChain("CONTAINER-REJECT", frame[i].pre)
        /\ Len(frame[i].queried) = 2
        /\ frame[i].ret = ErrChainNotFound("CONTAINER-REJECT")

\* The command sequence the specification gives for an interface and an
\* allowlist: create, accepts of the blocks, accepts of the ranges, the
\* jump to CONTAINER-REJECT, the jump inserted at position 1 of CONTAINERS.
ExpectedApply(i) ==
    LET chain == "CONTAINER-" \o i
        nets == filters[i].config.allowedNets
        ranges == filters[i].config.allowedRanges
    IN  <<Cmd("-N", chain, 0, NoRule)>>
        \o [k \in 1 .. Len(nets) |-> Cmd("-A", chain, 0, AcceptNet(nets[k]))]
        \o [k \in 1 .. Len(ranges) |->
               Cmd("-A", chain, 0, AcceptRange(ranges[k]))]
        \o <<Cmd("-A", chain, 0, JumpReject)>>
        \o <<Cmd("-I", "CONTAINERS", 1, JumpVeth(i))>>

\* C2: as long as no command of an applyFiltering has failed, the commands
\* it has issued are the first ones of the expected sequence, in order, and
\* when it returns nil it has issued exactly the expected sequence.
C2_ApplySequenceExact ==
    \A i \in Ifaces :
        (frame[i].op = "apply" /\ HasAllowlist(i) /\ AllOk(frame[i]))
        => /\ IsPrefix(IssuedArgs(frame[i]), ExpectedApply(i))
           /\ (pc[i] = "done" /\ frame[i].ret = RetNil)
                  => IssuedArgs(frame[i]) = ExpectedApply(i)

\* C2 witness: a successful apply of an allowlist with two blocks and two
\* ranges.
C2_Witness ==
    \E i \in Ifaces :
        /\ Returned(i, "apply")
        /\ frame[i].ret = RetNil
        /\ Len(filters[i].config.allowedNets) = 2
        /\ Len(filters[i].config.allowedRanges) = 2
        /\ Len(frame[i].issued) = 7

\* The rule program of the current call of filter i.
Program(i) ==
    IF frame[i].op = "apply" THEN applyFilteringRules(filters[i])
    ELSE removeFilteringRules(filters[i])

\* C3: the commands a call has issued are the first ones of its program;
\* all but the last have succeeded; when the last one has failed the call
\* has returned the error of that command and issues nothing more; and the
\* table is the one the executed commands produce from the table at the
\* time of the call (nothing is rolled back).
C3_FailFastPrefix ==
    \A i \in Ifaces :
        (frame[i].op # "" /\ HasAllowlist(i))
        => LET f == frame[i]
               n == Len(f.issued)
               executed == SelectSeq(f.issued, LAMBDA c : c.ok)
           IN  /\ IsPrefix(IssuedArgs(f), Program(i))
               /\ \A k \in 1 .. (n - 1) : f.issued[k].ok
               /\ (n > 0 /\ ~f.issued[n].ok)
                      => /\ pc[i] = "done"
                         /\ f.ret = ErrRuleFailed(Program(i)[n])
               /\ (pc[i] = "done" /\ f.ret = RetNil)
                      => n = Len(Program(i))
               /\ tables = RunAll([k \in 1 .. Len(executed) |->
                                      executed[k].args], f.pre)

\* C3 witness: an apply whose fourth command failed after three succeeded,
\* the dedicated chain left behind with its first rules.
C3_Witness ==
    \E i \in Ifaces :
        /\ Returned(i, "apply")
        /\ Len(frame[i].issued) = 4
        /\ ~frame[i].issued[4].ok
        /\ ExistChain(VethChainName(i), tables)
        /\ Len(tables[VethChainName(i)]) = 2

\* The rules of a chain as a set, the empty set when the chain is missing.
RuleSet(t, chain) ==
    IF chain \in DOMAIN t THEN {t[chain][k] : k \in 1 .. Len(t[chain])} ELSE {}

\* C4: when a removeFiltering returns nil right after an applyFiltering of
\* the same filter returned nil, the rules of CONTAINERS are, as a set,
\* those it held before the apply (when both base chains existed and the
\* dedicated chain did not), and the dedicated chain does not exist.
C4_ApplyRemoveRoundTrip ==
    \A i \in Ifaces :
        (/\ Returned(i, "remove")
         /\ frame[i].ret = RetNil
         /\ roundTrip[i].stage = "removed")
        => /\ ExistChain("CONTAINERS", roundTrip[i].before)
           /\ ExistChain("CONTAINER-REJECT", roundTrip[i].before)
           /\ ~ExistChain("CONTAINER-" \o i, roundTrip[i].before)
           /\ ExistChain("CONTAINERS", tables)
           /\ RuleSet(tables, "CONTAINERS")
                  = RuleSet(roundTrip[i].before, "CONTAINERS")
           /\ ~ExistChain("CONTAINER-" \o i, tables)

\* C4 witness: the round trip has completed on a CONTAINERS chain that held
\* rules before the apply.
C4_Witness ==
    \E i \in Ifaces :
        /\ Returned(i, "remove")
        /\ frame[i].ret = RetNil
        /\ roundTrip[i].stage = "removed"
        /\ Len(frame[i].issued) = 3
        /\ RuleSet(roundTrip[i].before, "CONTAINERS") # {}

\* C5: a removeFiltering of a filter with an allowlist, called while the
\* jump rule of the interface is not in CONTAINERS, issues the delete of
\* the jump rule and nothing else, returns the error of that command and
\* leaves the table as it was.
C5_RemoveWithoutJumpFails ==
    \A i \in Ifaces :
        (/\ Returned(i, "remove")
         /\ HasAllowlist(i)
         /\ JumpVeth(i) \notin RuleSet(frame[i].pre, "CONTAINERS"))
        => /\ frame[i].ret =
                  ErrRuleFailed(Cmd("-D", "CONTAINERS", 0, JumpVeth(i)))
           /\ Len(frame[i].issued) = 1
           /\ frame[i].issued[1].args.op = "-D"
           /\ ~frame[i].issued[1].ok
           /\ tables = frame[i].pre

\* C5 witness: the second of two removes after an apply: apply and remove
\* have returned nil, and the next remove, on a table with no dedicated
\* chain, has failed on the delete of the jump rule.
C5_Witness ==
    \E i \in Ifaces :
        /\ Returned(i, "remove")
        /\ HasAllowlist(i)
        /\ roundTrip[i].stage = "removed"
        /\ ExistChain("CONTAINERS", tables)
        /\ ~ExistChain("CONTAINER-" \o i, tables)
        /\ frame[i].ret.kind = "rule failed"
        /\ Len(frame[i].issued) = 1

\* C6: a call of a filter without allowlist has returned nil at once, with
\* no query and no command sent to the backend and the table as it was,
\* whether or not the base chains exist.
C6_NilConfigNoBackendCall ==
    \A i \in Ifaces :
        (frame[i].op # "" /\ ~HasAllowlist(i))
        => /\ pc[i] = "done"
           /\ frame[i].ret = RetNil
           /\ frame[i].queried = <<>>
           /\ frame[i].issued = <<>>
           /\ tables = frame[i].pre

\* C6 witness: an apply without allowlist has returned nil although
\* CONTAINERS does not exist.
C6_Witness ==
    \E i \in Ifaces :
        /\ Returned(i, "apply")
        /\ ~HasAllowlist(i)
        /\ frame[i].ret = RetNil
        /\ ~ExistChain("CONTAINERS", tables)

\* The accept rules the allowlist of filter i stands for.
AcceptRules(i) ==
    {AcceptNet(filters[i].config.allowedNets[k]) :
        k \in 1 .. Len(filters[i].config.allowedNets)}
    \cup {AcceptRange(filters[i].config.allowedRanges[k]) :
        k \in 1 .. Len(filters[i].config.allowedRanges)}

\* C7: in every state, whatever commands have failed: when CONTAINERS holds
\* the jump rule of an interface, the dedicated chain of the interface
\* exists, holds every accept rule of its allowlist and ends with the jump
\* to CONTAINER-REJECT; and in a dedicated chain no accept rule comes after
\* a jump to CONTAINER-REJECT.
C7_JumpOnlyIntoCompleteChain ==
    \A i \in Ifaces :
        LET chain == "CONTAINER-" \o i
        IN  /\ JumpVeth(i) \in RuleSet(tables, "CONTAINERS")
                => /\ ExistChain(chain, tables)
                   /\ AcceptRules(i) \subseteq RuleSet(tables, chain)
                   /\ tables[chain] # <<>>
                   /\ tables[chain][Len(tables[chain])] = JumpReject
            /\ ExistChain(chain, tables)
                => \A k, m \in 1 .. Len(tables[chain]) :
                       (k < m /\ tables[chain][k].target = "CONTAINER-REJECT")
                       => tables[chain][m].target # "ACCEPT"

\* C7 witness: the jump rule is in CONTAINERS after a remove has failed on
\* its first command, the chain still complete behind it.
C7_Witness ==
    \E i \in Ifaces :
        /\ Returned(i, "remove")
        /\ frame[i].ret.kind = "rule failed"
        /\ JumpVeth(i) \in RuleSet(tables, "CONTAINERS")
        /\ Len(tables["CONTAINER-" \o i]) = 5

\* Whether the allowlist of filter i admits source address src.
Allowed(i, src) ==
    \/ \E k \in 1 .. Len(filters[i].config.allowedNets) :
           NetContains(filters[i].config.allowedNets[k], src)
    \/ \E k \in 1 .. Len(filters[i].config.allowedRanges) :
           /\ filters[i].config.allowedRanges[k].from <= src
           /\ src <= filters[i].config.allowedRanges[k].to

\* C8: when an applyFiltering has returned nil, the dedicated chain accepts
\* a packet exactly when its source address is in a block or in the
\* interval of a range of the allowlist, and sends every other packet to
\* CONTAINER-REJECT.
C8_AllowlistDecidesVerdict ==
    \A i \in Ifaces :
        (Returned(i, "apply") /\ frame[i].ret = RetNil /\ HasAllowlist(i))
        => /\ ExistChain("CONTAINER-" \o i, tables)
           /\ \A src \in Addrs :
                  Verdict(tables["CONTAINER-" \o i], src, i) =
                      IF Allowed(i, src) THEN "ACCEPT" ELSE "CONTAINER-REJECT"

\* C8 witness: an allowlist whose only entry is a range with no address in
\* it has been applied, and no packet is accepted.
C8_Witness ==
    \E i \in Ifaces :
        /\ Returned(i, "apply")
        /\ frame[i].ret = RetNil
        /\ HasAllowlist(i)
        /\ \A src \in Addrs : ~Allowed(i, src)
        /\ \A src \in Addrs :
               Verdict(tables["CONTAINER-" \o i], src, i) = "CONTAINER-REJECT"

\* What of table t belongs to interface i: its dedicated chain, and how
\* many times its jump rule is in CONTAINERS.
Own(i, t) ==
    [exists |-> ExistChain("CONTAINER-" \o i, t),
     rules |-> IF ExistChain("CONTAINER-" \o i, t)
               THEN t["CONTAINER-" \o i] ELSE <<>>,
     jumps |-> IF ExistChain("CONTAINERS", t)
               THEN Cardinality({k \in 1 .. Len(t["CONTAINERS"]) :
                                    t["CONTAINERS"][k] = JumpVeth(i)})
               ELSE 0]

\* C9: with the calls of the two interfaces interleaved between backend
\* commands, what belongs to an interface in the table, and the outcome of
\* every backend call of its filter, are what they are when the same calls
\* run with the other filter never called.
C9_InterleavingDoesNotInterfere ==
    \A i \in Ifaces :
        /\ Own(i, tables) = Own(i, alone[i].tables)
        /\ [k \in 1 .. Len(frame[i].queried) |-> frame[i].queried[k].ok]
               = alone[i].queried
        /\ [k \in 1 .. Len(frame[i].issued) |-> frame[i].issued[k].ok]
               = alone[i].issued

\* C9 witness: two applies called on the same table, with neither
\* dedicated chain in it, have run at the same time and both returned nil;
\* which of the two jump rules is first in CONTAINERS is left to the
\* interleaving.
C9_Witness ==
    /\ \A i \in Ifaces : Returned(i, "apply") /\ frame[i].ret = RetNil
    /\ \E i \in Ifaces :
           /\ frame[i].pre = frame[Other(i)].pre
           /\ ~ExistChain("CONTAINER-" \o i, frame[Other(i)].pre)
           /\ FirstMatch(tables["CONTAINERS"], JumpVeth(i)) = 1
           /\ Len(frame[i].pre["CONTAINERS"]) = 2

\* C10: when an applyFiltering has returned nil, CONTAINERS is the jump
\* rule of the interface followed by the rules it held before the call, in
\* their order.
C10_JumpInsertedFirst ==
    \A i \in Ifaces :
        (Returned(i, "apply") /\ frame[i].ret = RetNil /\ HasAllowlist(i))
        => /\ ExistChain("CONTAINERS", frame[i].pre)
           /\ tables["CONTAINERS"] =
                  <<JumpVeth(i)>> \o frame[i].pre["CONTAINERS"]

\* C10 witness: the apply has returned nil on a CONTAINERS chain that held
\* three rules, the jump of the other interface among them.
C10_Witness ==
    \E i \in Ifaces :
        /\ Returned(i, "apply")
        /\ frame[i].ret = RetNil
        /\ HasAllowlist(i)
        /\ Len(frame[i].pre["CONTAINERS"]) = 3
        /\ JumpVeth(Other(i)) \in RuleSet(frame[i].pre, "CONTAINERS")

\* The three commands the specification gives for a remove.
ExpectedRemove(i) ==
    <<Cmd("-D", "CONTAINERS", 0, JumpVeth(i)),
      Cmd("-F", "CONTAINER-" \o i, 0, NoRule),
      Cmd("-X", "CONTAINER-" \o i, 0, NoRule)>>

\* Filter i sends a flush or a delete of a chain to the backend in this step.
SendsFlushOrDelete(i) ==
    /\ Len(frame'[i].issued) = Len(frame[i].issued) + 1
    /\ frame'[i].issued[Len(frame'[i].issued)].args.op \in {"-F", "-X"}

\* C11: the commands a removeFiltering has issued are the first ones of:
\* delete the jump rule from CONTAINERS, flush the dedicated chain, delete
\* the dedicated chain; when it returns nil it has issued exactly these
\* three; and no flush or delete of a chain is sent while the jump rule of
\* the interface is in CONTAINERS.
C11_RemoveOrderJumpFirst ==
    /\ [](\A i \in Ifaces :
            (frame[i].op = "remove" /\ HasAllowlist(i))
            => /\ IsPrefix(IssuedArgs(frame[i]), ExpectedRemove(i))
               /\ (pc[i] = "done" /\ frame[i].ret = RetNil)
                      => IssuedArgs(frame[i]) = ExpectedRemove(i))
    /\ [][\A i \in Ifaces :
            SendsFlushOrDelete(i)
            => JumpVeth(i) \notin RuleSet(tables, "CONTAINERS")]_vars

\* C11 witness: a remove of an active filter has returned nil after its
\* three commands.
C11_Witness ==
    \E i \in Ifaces :
        /\ Returned(i, "remove")
        /\ frame[i].ret = RetNil
        /\ Len(frame[i].issued) = 3
        /\ JumpVeth(i) \in RuleSet(frame[i].pre, "CONTAINERS")
        /\ Len(frame[i].pre["CONTAINER-" \o i]) > 1

\* What each text of ElementPool is by the input format: an address or a
\* CIDR block, a range of two addresses, or neither.
BlockTexts ==
    {<<"1", ".", "2", ".", "3", ".", "4">>,
     <<"1", ".", "2", ".", "3", ".", "4", "/", "8">>,
     <<":", ":", "1">>,
     <<":", ":", "1", "/", "1", "2", "8">>}

RangeTexts ==
    {<<"1", ".", "2", ".", "3", ".", "4", "-", "1", ".", "2", ".", "3", ".", "9">>,
     <<"5", ".", "6", ".", "7", ".", "8", " ", "-", " ", "5", ".", "6", ".", "7", ".", "1">>}

IsBad(e) == e.text \notin BlockTexts \cup RangeTexts

ParseReturned == parse.at \in {"returned", "built"}

\* The first element of the string that is neither block nor range.
FirstBad ==
    parse.elements[CHOOSE k \in 1 .. Len(parse.elements) :
                       /\ IsBad(parse.elements[k])
                       /\ \A m \in 1 .. (k - 1) : ~IsBad(parse.elements[m])]

\* C12: NetFilterConfigParse of a non-empty string with an element that is
\* neither an address or CIDR block nor a range returns the nil config and
\* the error naming the first such element, whatever comes before or after
\* it; with no such element it returns no error.
C12_ParseAllOrNothing ==
    (ParseReturned /\ parse.input # <<>>)
    => IF \E k \in 1 .. Len(parse.elements) : IsBad(parse.elements[k])
       THEN /\ parse.err = ParseError(FirstBad.text)
            /\ parse.config = NilConfig
       ELSE /\ parse.err = NoParseError
            /\ ~parse.config.nil

\* C12 witness: a block followed by an element that does not parse: the
\* error names the second element and no config is returned.
C12_Witness ==
    /\ ParseReturned
    /\ Len(parse.elements) = 2
    /\ ~IsBad(parse.elements[1])
    /\ parse.elements[2].text = <<"x">>
    /\ parse.err = ParseError(<<"x">>)
    /\ parse.config = NilConfig

\* The position in allowedNets of the block parsed from element k.
BlockIndex(k) ==
    Cardinality({m \in 1 .. k : parse.elements[m].text \in BlockTexts})

\* The elements without "/" that are addresses.
BareAddresses ==
    {k \in 1 .. Len(parse.elements) :
        /\ ~Contains(parse.elements[k].text, "/")
        /\ ParseIP(parse.elements[k].text) # NoIP}

\* C13: an element without "/" that is an address of either family is
\* parsed to the block of that address with the full prefix length of its
\* family, the host route holding that one address.
C13_BareAddressIsHostRoute ==
    (ParseReturned /\ parse.err = NoParseError /\ ~parse.config.nil)
    => \A k \in BareAddresses :
           LET ip == ParseIP(parse.elements[k].text)
               ipNet == parse.config.allowedNets[BlockIndex(k)]
           IN  /\ ipNet.ones = FamilyBits(ip.fam)
               /\ ipNet.ip = ip

\* The elements of the string that are blocks, in input order, and those
\* that are ranges, in input order.
BlockElements == SelectSeq(parse.elements, LAMBDA e : e.text \in BlockTexts)

RangeElements == SelectSeq(parse.elements, LAMBDA e : e.text \in RangeTexts)

\* The "-A <chain> ... -j ACCEPT" commands among the rules, in order.
AcceptCommands(rules) ==
    SelectSeq(rules, LAMBDA args : args.op = "-A" /\ args.rule.target = "ACCEPT")

\* C14: a successful parse returns the blocks of the string in input order
\* and its ranges in input order, every element in exactly one of the two
\* lists; the filter built from it issues the accept rules of all blocks, in
\* that order, before those of all ranges, whatever the interleaving was.
C14_BlocksThenRangesInOrder ==
    (ParseReturned /\ parse.err = NoParseError /\ ~parse.config.nil)
    => /\ parse.config.allowedNets =
              [k \in 1 .. Len(BlockElements) |->
                  ParseIPOrNet(BlockElements[k].text)]
       /\ parse.config.allowedRanges =
              [k \in 1 .. Len(RangeElements) |->
                  ParseIPRange(RangeElements[k].text)]
       /\ Len(parse.config.allowedNets) + Len(parse.config.allowedRanges)
              = Len(parse.elements)
       /\ parse.at = "built"
          => AcceptCommands(applyFilteringRules(filters["eth0"])) =
                 [k \in 1 .. Len(parse.elements) |->
                     Cmd("-A", "CONTAINER-eth0", 0,
                         IF k <= Len(BlockElements)
                         THEN AcceptNet(ParseIPOrNet(BlockElements[k].text))
                         ELSE AcceptRange(ParseIPRange(
                                  RangeElements[k - Len(BlockElements)].text)))]

\* C14 witness: a range written before a block; the filter built from the
\* parse accepts the block first.
C14_Witness ==
    /\ parse.at = "built"
    /\ Len(parse.elements) = 2
    /\ parse.elements[1].text \in RangeTexts
    /\ parse.elements[2].text \in BlockTexts
    /\ AcceptCommands(applyFilteringRules(filters["eth0"]))[1].rule.match = "-s"

\* Two different blocks parsed in input order.
C14_WitnessTwoBlocks ==
    /\ ParseReturned
    /\ Len(parse.config.allowedNets) = 2
    /\ parse.config.allowedNets[1] # parse.config.allowedNets[2]

\* C15: NetFilterConfigParse("") returns the nil config and the nil error,
\* which is not the present config with no entries that a non-empty string
\* starts from.
C15_EmptyStringDisablesFiltering ==
    /\ NilConfig # newConfig
    /\ (ParseReturned /\ parse.input = <<>>)
       => /\ parse.config = NilConfig
          /\ parse.config.nil
          /\ parse.err = NoParseError
          /\ parse.at = "built" => ~HasAllowlist("eth0")

\* C15 witness: the empty string was parsed and a filter built from the
\* result; the filter has no config.
C15_Witness ==
    /\ parse.at = "built"
    /\ parse.input = <<>>
    /\ filters["eth0"].config = NilConfig

\* The number of "," in the string, and whether it has nothing but "," and
\* spaces.
Commas == Cardinality({k \in 1 .. Len(parse.input) : parse.input[k] = ","})

OnlySeparators == \A k \in 1 .. Len(parse.input) : parse.input[k] \in {",", " "}

Entries(config) == Len(config.allowedNets) + Len(config.allowedRanges)

\* C20: NetFilterConfigParse never returns a present config without entries:
\* a successful parse of a non-empty string has as many blocks and ranges
\* together as the string has comma-separated elements, at least one, and a
\* non-empty string of only separators and spaces is a parse error.
C20_NoEmptyAllowlist ==
    ParseReturned
    => /\ ~parse.config.nil => Entries(parse.config) >= 1
       /\ (parse.input # <<>> /\ parse.err = NoParseError)
          => /\ ~parse.config.nil
             /\ Entries(parse.config) = Commas + 1
       /\ (parse.input # <<>> /\ OnlySeparators)
          => /\ parse.err # NoParseError
             /\ parse.config = NilConfig

\* C20 witness: the string is a lone comma between spaces; the parse
\* returned an error and no config.
C20_Witness ==
    /\ ParseReturned
    /\ Commas = 1
    /\ Len(parse.input) > 1
    /\ OnlySeparators
    /\ parse.err = ParseError(<<>>)
    /\ parse.config = NilConfig

\* Interface identifiers, those of the filters among them.
IfaceNames == Ifaces \cup {"", "e", "eth", "eth00", "veth0", "REJECT"}

\* The chains a call has addressed with commands on a dedicated chain
\* (create, append, flush, delete), and the chains its jump rules point to.
ChainsAddressed(f) ==
    {f.issued[k].args.chain :
        k \in {m \in 1 .. Len(f.issued) :
                  f.issued[m].args.op \in {"-N", "-A", "-F", "-X"}}}

JumpTargets(f) ==
    {f.issued[k].args.rule.target :
        k \in {m \in 1 .. Len(f.issued) : f.issued[m].args.op \in {"-I", "-D"}}}

\* C16: the dedicated chain name is CONTAINER- followed by the interface
\* identifier, different identifiers give different names, and every
\* command of an apply or a remove of a filter addresses the chain of that
\* name or, with the jump rule to that name, CONTAINERS.
C16_ChainNameInjective ==
    /\ \A a \in IfaceNames : VethChainName(a) = "CONTAINER-" \o a
    /\ \A a, b \in IfaceNames :
           a # b => VethChainName(a) # VethChainName(b)
    /\ \A i \in Ifaces :
           /\ ChainsAddressed(frame[i])
                  \subseteq {"CONTAINER-" \o filters[i].ifaceName}
           /\ JumpTargets(frame[i])
                  \subseteq {"CONTAINER-" \o filters[i].ifaceName}
           /\ \A k \in 1 .. Len(frame[i].issued) :
                  frame[i].issued[k].args.op \in {"-I", "-D"}
                  => /\ frame[i].issued[k].args.chain = "CONTAINERS"
                     /\ frame[i].issued[k].args.rule.dev = filters[i].ifaceName

\* C16 witness: a remove has deleted the chain that the apply of the same
\* filter created, while the chain of the other interface is in place.
C16_Witness ==
    \E i \in Ifaces :
        /\ Returned(i, "remove")
        /\ frame[i].ret = RetNil
        /\ ExistChain("CONTAINER-" \o i, frame[i].pre)
        /\ ~ExistChain("CONTAINER-" \o i, tables)
        /\ ExistChain("CONTAINER-" \o Other(i), tables)

\* The dedicated chain of interface i is in table t and CONTAINERS does not
\* jump to it: what an applyFiltering leaves when it fails between its "-N"
\* and its "-I".
Orphaned(i, t) ==
    /\ ExistChain("CONTAINER-" \o i, t)
    /\ JumpVeth(i) \notin RuleSet(t, "CONTAINERS")

\* C17: a call of a filter that starts with the dedicated chain in place
\* and no jump rule in CONTAINERS returns an error and leaves the backend as
\* it found it: an apply sends at most "-N", which fails, and a remove only
\* "-D", which fails; between calls the chain stays and no jump rule
\* appears, so no later call finds the clean state.
C17_NoRecoveryFromOrphanedChain ==
    /\ [](\A i \in Ifaces :
            (frame[i].op # "" /\ HasAllowlist(i) /\ Orphaned(i, frame[i].pre))
            => /\ tables = frame[i].pre
               /\ \A k \in 1 .. Len(frame[i].issued) : ~frame[i].issued[k].ok
               /\ pc[i] = "done"
                  => /\ frame[i].ret # RetNil
                     /\ frame[i].op = "remove"
                        => /\ IssuedArgs(frame[i]) = SubSeq(ExpectedRemove(i), 1, 1)
                           /\ frame[i].ret = ErrRuleFailed(ExpectedRemove(i)[1])
                     /\ frame[i].op = "apply"
                        => IF \A k \in 1 .. Len(frame[i].queried) :
                                  frame[i].queried[k].ok
                           THEN /\ IssuedArgs(frame[i]) =
                                       SubSeq(ExpectedApply(i), 1, 1)
                                /\ frame[i].ret =
                                       ErrRuleFailed(ExpectedApply(i)[1])
                           ELSE frame[i].issued = <<>>)
    /\ [][\A i \in Ifaces :
             (Orphaned(i, tables) /\ (Idle(i) \/ Orphaned(i, frame[i].pre)))
             => Orphaned(i, tables')]_vars

\* C17 witness: a remove has returned its error on a backend that holds the
\* dedicated chain with fewer rules than a complete apply appends and no
\* jump rule, the state a failed apply left.
C17_Witness ==
    \E i \in Ifaces :
        /\ Returned(i, "remove")
        /\ Orphaned(i, frame[i].pre)
        /\ Len(frame[i].pre["CONTAINER-" \o i]) \in
               1 .. (Len(ExpectedApply(i)) - 4)
        /\ frame[i].ret = ErrRuleFailed(ExpectedRemove(i)[1])
        /\ tables = frame[i].pre

\* A later apply has failed at "-N" on the same state.
C17_WitnessApply ==
    \E i \in Ifaces :
        /\ Returned(i, "apply")
        /\ Orphaned(i, frame[i].pre)
        /\ frame[i].ret = ErrRuleFailed(ExpectedApply(i)[1])
        /\ ~Raw(ExpectedApply(i)[1], frame[i].pre).ok

\* C18: the dedicated chain of a filter in use is neither CONTAINERS nor
\* CONTAINER-REJECT, and no call sends a create, append, flush or delete
\* command for one of these two chains.
C18_NeverAddressesBaseChain ==
    \A i \in Ifaces :
        frame[i].op # ""
        => /\ VethChainName(filters[i].ifaceName)
                  \notin {containersChainName, containerRejectChainName}
           /\ ChainsAddressed(frame[i])
                  \cap {containersChainName, containerRejectChainName} = {}

\* The filter of interface i is active in table t: its dedicated chain
\* holds the rules of a complete apply and CONTAINERS jumps to it once.
Active(i, t) ==
    /\ Own(i, t).exists
    /\ Own(i, t).rules =
           [k \in 1 .. (Len(ExpectedApply(i)) - 2) |->
               ExpectedApply(i)[k + 1].rule]
    /\ Own(i, t).jumps = 1

\* C19: an applyFiltering of a filter that is already active sends at most
\* its first command, the "-N" that fails, returns an error and leaves the
\* table as it was, with one jump rule and the rules of the chain unchanged;
\* a removeFiltering that returns nil afterwards leaves the table as it was
\* before the first apply.
C19_ReapplyFailsCleanly ==
    \A i \in Ifaces :
        /\ (frame[i].op = "apply" /\ HasAllowlist(i) /\ Active(i, frame[i].pre))
           => /\ tables = frame[i].pre
              /\ Active(i, tables)
              /\ IsPrefix(IssuedArgs(frame[i]), SubSeq(ExpectedApply(i), 1, 1))
              /\ \A k \in 1 .. Len(frame[i].issued) : ~frame[i].issued[k].ok
              /\ pc[i] = "done"
                 => /\ frame[i].ret # RetNil
                    /\ (\A k \in 1 .. Len(frame[i].queried) :
                            frame[i].queried[k].ok)
                       => frame[i].ret = ErrRuleFailed(ExpectedApply(i)[1])
        /\ (roundTrip[i].stage = "reapplying" /\ frame[i].op = "apply")
           => Active(i, frame[i].pre)
        /\ (Returned(i, "remove") /\ roundTrip[i].stage = "recovered")
           => /\ tables = roundTrip[i].before
              /\ ~ExistChain("CONTAINER-" \o i, tables)
              /\ JumpVeth(i) \notin RuleSet(tables, "CONTAINERS")

\* C19 witness: apply, a second apply that failed, and a remove that
\* returned nil, on a CONTAINERS chain that held rules of its own.
C19_Witness ==
    \E i \in Ifaces :
        /\ Returned(i, "remove")
        /\ roundTrip[i].stage = "recovered"
        /\ frame[i].ret = RetNil
        /\ tables = roundTrip[i].before
        /\ RuleSet(tables, "CONTAINERS") # {}

\* The second apply has returned the error of its "-N".
C19_WitnessReapply ==
    \E i \in Ifaces :
        /\ Returned(i, "apply")
        /\ roundTrip[i].stage = "reapplying"
        /\ frame[i].ret = ErrRuleFailed(ExpectedApply(i)[1])
        /\ Len(frame[i].issued) = 1

====
